---- MODULE Spec2Model ----
(***************************************************************************)
(* Model of the media acquisition logic of modules/RTC/RTCUtils.js:        *)
(* obtainAudioAndVideoPermissions with its two strategies (one combined    *)
(* getUserMedia call, or obtainDevices' one call per device),              *)
(* getUserMediaWithConstraints/getUM, setAvailableDevices and              *)
(* handleLocalStream.                                                      *)
(*                                                                         *)
(* Every JavaScript callback runs to completion, so every action below is  *)
(* one whole callback (or the Promise executor) with everything it calls   *)
(* synchronously.  The native getUserMedia and the screen obtainer answer  *)
(* asynchronously: their answers are separate actions whose outcome is an  *)
(* input.                                                                  *)
(***************************************************************************)
EXTENDS Integers, Sequences, FiniteSets, TLC

\* ------------------------------------------------------------------ bounds
\* Number of acquisitions (calls of obtainAudioAndVideoPermissions) that may
\* be in flight together: acquisition 1 is called with any request, the
\* others are further callers asking for one device each.
MaxAcq == 2
\* Largest number of tracks of one media type a captured stream carries.
MaxTracks == 1
\* Largest number of tracks of one media type in a stream of a bundle that
\* handleLocalStream is applied to on its own.
MaxBundleTracks == 2

Acqs == 1..MaxAcq

\* ------------------------------------------------------------- vocabulary
\* The kinds a caller may put into options.devices.
Kinds == {"audio", "video", "desktop"}

\* RTCBrowserType: "firefox" stands for the per-device backends,
\* "chrome" for the backends that get audio and video in one call.
Browsers == {"chrome", "firefox"}

\* Values of options.resolution the caller may pass ("undefined": none given).
ResolutionInputs == {"undefined", "720"}

\* JavaScript's undefined, for a stream and for a track.
NoTrack == [owner |-> 0, kind |-> "undefined", type |-> "undefined", idx |-> 0]
NoStream ==
    [owner |-> 0, kind |-> "undefined", audioTracks |-> <<>>, videoTracks |-> <<>>]

\* No error stored in a promise.
NoError == [cause |-> "none", devices |-> <<>>]

\* A MediaStream the backend hands out for acquisition a: n audio and m video
\* tracks, tagged with the call that produced it.
MkTracks(a, kind, type, n) ==
    [i \in 1..n |-> [owner |-> a, kind |-> kind, type |-> type, idx |-> i]]

MkStream(a, kind, n, m) ==
    [owner |-> a, kind |-> kind,
     audioTracks |-> MkTracks(a, kind, "audio", n),
     videoTracks |-> MkTracks(a, kind, "video", m)]

\* Array.prototype.indexOf, 1-based; 0 when x is not in s (-1 in JavaScript).
IndexOf(s, x) ==
    IF \E i \in 1..Len(s) : s[i] = x
    THEN CHOOSE i \in 1..Len(s) : s[i] = x /\ \A j \in 1..(i - 1) : s[j] # x
    ELSE 0

\* s.splice(i, 1): s without its i-th element.
Splice(s, i) == [j \in 1..(Len(s) - 1) |-> IF j < i THEN s[j] ELSE s[j + 1]]

\* Mutant of First: the last element.
FirstTakesLast(s) == IF Len(s) > 0 THEN s[Len(s)] ELSE NoTrack

\* s[0] of a JavaScript array of tracks: undefined when the array is empty.
First(s) == IF Len(s) > 0 THEN s[1] ELSE NoTrack

\* All sequences over S without repetition (the request is an ordered set).
RECURSIVE Orderings(_)
Orderings(S) ==
    IF S = {} THEN {<<>>}
    ELSE UNION {{<<x>> \o t : t \in Orderings(S \ {x})} : x \in S}

KindLists == UNION {Orderings(S) : S \in SUBSET Kinds}

\* What a caller may pass as options: devices given or not (undefined), and
\* a resolution.
Requests ==
    {[given |-> TRUE, list |-> l, resolution |-> r] :
        l \in KindLists, r \in ResolutionInputs}
    \cup {[given |-> FALSE, list |-> <<>>, resolution |-> r] :
            r \in ResolutionInputs}

\* What the further callers pass.
SingleDeviceRequests ==
    {[given |-> TRUE, list |-> <<k>>, resolution |-> "undefined"] :
        k \in {"audio", "video"}}

RequestsOf(a) == IF a = 1 THEN Requests ELSE SingleDeviceRequests

\* ------------------------------------------------------------------ state
VARIABLES
    browser,          \* RTCBrowserType of this page
    screenSupported,  \* screenObtainer.isSupported()
    devices,          \* the module's device availability flags
    acq,              \* per acquisition: options, promise, outstanding calls, history
    lastAttempt,      \* history: how the last ended attempt of each kind ended
    norm,             \* handleLocalStream on its own: arguments and return value
    gc,               \* getConstraints on its own: arguments and return values
    getUserMediaStatus, \* the module's record: initialized flag and callbacks
    wrapped           \* the wrapped getUserMedia and enumerateDevices: calls under way, history

vars ==
    <<browser, screenSupported, devices, acq, lastAttempt, norm, gc,
      getUserMediaStatus, wrapped>>

\* An acquisition that has not been started.
NewAcq ==
    [started    |-> FALSE,
     given      |-> FALSE,     \* the caller passed options.devices
     requested  |-> <<>>,      \* options.devices as the caller passed it
     devices    |-> <<>>,      \* options.devices, the array itself
     resolution |-> "undefined", \* options.resolution
     passedResolution |-> "undefined", \* options.resolution as the caller passed it
     hasDesktop |-> FALSE,
     streams    |-> <<>>,      \* obtainDevices' options.streams, in key order
     calls      |-> {},        \* backend calls that have not answered yet
     promise    |-> "pending",
     result     |-> <<>>,      \* value of the resolved promise
     error      |-> NoError,   \* reason of the rejected promise
     settledAt  |-> 0,         \* length of the log when the promise settled
     log        |-> <<>>]      \* what the acquisition did, in order

\* No payload: the entry is not an emitted event.
NoPayload == [video |-> FALSE, audio |-> FALSE, none |-> TRUE]

\* One entry of an acquisition's log: what happened, the kinds it is about,
\* the stream it is about.
Ev(ev, um, stream) ==
    [ev |-> ev, um |-> um, stream |-> stream, payload |-> NoPayload]

Log(st, e) == [st EXCEPT !.log = Append(@, e)]

isFirefox == browser = "firefox"

\* ------------------------------------------------------- handleLocalStream
\* The streams object handed to successCallback; absent properties are
\* undefined.
Bundle(audioVideo, audio, video, desktopStream, desktop) ==
    [defined |-> TRUE,
     audioVideo |-> audioVideo, audio |-> audio, video |-> video,
     desktopStream |-> desktopStream, desktop |-> desktop]

\* No streams object at all (undefined).
NoBundle ==
    [defined |-> FALSE,
     audioVideo |-> NoStream, audio |-> NoStream, video |-> NoStream,
     desktopStream |-> NoStream, desktop |-> NoStream]

\* new webkitMediaStream() filled with the tracks of one type of a combined
\* stream.
SplitStream(audioVideo, type) ==
    [owner |-> audioVideo.owner,
     kind |-> IF type = "audio" THEN "webkitAudio" ELSE "webkitVideo",
     audioTracks |-> IF type = "audio" THEN audioVideo.audioTracks ELSE <<>>,
     videoTracks |-> IF type = "video" THEN audioVideo.videoTracks ELSE <<>>]

\* Mutant of res: the audio descriptor is pushed first.
resAudioFirst(desktopStream, audioStream, videoStream, resolution) ==
    LET d == IF desktopStream # NoStream
             THEN << [stream |-> desktopStream,
                      track |-> First(desktopStream.videoTracks),
                      mediaType |-> "video", videoType |-> "desktop",
                      resolution |-> "absent"] >>
             ELSE <<>>
        a == IF audioStream # NoStream
             THEN << [stream |-> audioStream,
                      track |-> First(audioStream.audioTracks),
                      mediaType |-> "audio", videoType |-> "null",
                      resolution |-> "absent"] >>
             ELSE <<>>
        v == IF videoStream # NoStream
             THEN << [stream |-> videoStream,
                      track |-> First(videoStream.videoTracks),
                      mediaType |-> "video", videoType |-> "camera",
                      resolution |-> resolution] >>
             ELSE <<>>
    IN a \o d \o v

\* Mutant of res: the desktop descriptor is built like the camera's, with
\* the camera's track when there is one and with the resolution.
resDesktopLikeCamera(desktopStream, audioStream, videoStream, resolution) ==
    LET d == IF desktopStream # NoStream
             THEN << [stream |-> desktopStream,
                      track |-> IF videoStream # NoStream
                                THEN First(videoStream.videoTracks)
                                ELSE First(desktopStream.videoTracks),
                      mediaType |-> "video", videoType |-> "desktop",
                      resolution |-> resolution] >>
             ELSE <<>>
        a == IF audioStream # NoStream
             THEN << [stream |-> audioStream,
                      track |-> First(audioStream.audioTracks),
                      mediaType |-> "audio", videoType |-> "null",
                      resolution |-> "absent"] >>
             ELSE <<>>
        v == IF videoStream # NoStream
             THEN << [stream |-> videoStream,
                      track |-> First(videoStream.videoTracks),
                      mediaType |-> "video", videoType |-> "camera",
                      resolution |-> resolution] >>
             ELSE <<>>
    IN d \o a \o v

\* The three pushes to res at the end of handleLocalStream; a descriptor
\* without a resolution property has the resolution "absent".
res(desktopStream, audioStream, videoStream, resolution) ==
    LET d == IF desktopStream # NoStream
             THEN << [stream |-> desktopStream,
                      track |-> First(desktopStream.videoTracks),
                      mediaType |-> "video", videoType |-> "desktop",
                      resolution |-> "absent"] >>
             ELSE <<>>
        a == IF audioStream # NoStream
             THEN << [stream |-> audioStream,
                      track |-> First(audioStream.audioTracks),
                      mediaType |-> "audio", videoType |-> "null",
                      resolution |-> "absent"] >>
             ELSE <<>>
        v == IF videoStream # NoStream
             THEN << [stream |-> videoStream,
                      track |-> First(videoStream.videoTracks),
                      mediaType |-> "video", videoType |-> "camera",
                      resolution |-> resolution] >>
             ELSE <<>>
    IN d \o a \o v

handleLocalStream(streams, resolution) ==
    LET audioVideo == IF streams.defined THEN streams.audioVideo ELSE NoStream
        audioStream ==
            IF ~streams.defined THEN NoStream
            ELSE IF audioVideo # NoStream
            THEN IF Len(audioVideo.audioTracks) > 0
                 THEN SplitStream(audioVideo, "audio") ELSE NoStream
            ELSE streams.audio
        videoStream ==
            IF ~streams.defined THEN NoStream
            ELSE IF audioVideo # NoStream
            THEN IF Len(audioVideo.videoTracks) > 0
                 THEN SplitStream(audioVideo, "video") ELSE NoStream
            ELSE streams.video
        desktopStream ==
            IF ~streams.defined THEN NoStream
            ELSE IF streams.desktopStream # NoStream
            THEN streams.desktopStream ELSE streams.desktop
    IN res(desktopStream, audioStream, videoStream, resolution)

\* ----------------------------------------------------- setAvailableDevices
\* Mutant of setAvailableDevices: both flags are set, whatever was attempted.
setAvailableDevicesBoth(flags, um, available) ==
    [video |-> available, audio |-> available]

setAvailableDevices(flags, um, available) ==
    [video |-> IF IndexOf(um, "video") # 0 THEN available ELSE flags.video,
     audio |-> IF IndexOf(um, "audio") # 0 THEN available ELSE flags.audio]

\* eventEmitter.emit(RTCEvents.AVAILABLE_DEVICES_CHANGED, devices) at
\* the end of setAvailableDevices: the events the listeners receive when
\* the flags went from old to new.
EmitAvailableDevices(old, new) ==
    << [ev |-> "emit", um |-> <<>>, stream |-> NoStream,
        payload |-> [video |-> new.video, audio |-> new.audio, none |-> FALSE]] >>

\* ------------------------------------------------- promise and stream ends
\* resolve and reject of the acquisition's promise: only the first one
\* settles it.
resolve(st, value) ==
    LET st1 == Log(st, Ev("resolve", <<>>, NoStream))
    IN IF st.promise = "pending"
       THEN [st1 EXCEPT !.promise = "resolved", !.result = value,
                        !.settledAt = Len(st1.log)]
       ELSE st1

reject(st, err) ==
    LET st1 == Log(st, Ev("reject", err.devices, NoStream))
    IN IF st.promise = "pending"
       THEN [st1 EXCEPT !.promise = "rejected", !.error = err,
                        !.settledAt = Len(st1.log)]
       ELSE st1

\* JitsiTrackErrors.parseError(error, devices): the cause and the devices it
\* is classified with.
parseError(cause, devs) == [cause |-> cause, devices |-> devs]

stopMediaStream(st, stream) == Log(st, Ev("stop", <<>>, stream))

\* An exception nobody catches.  Thrown out of the Promise executor it
\* rejects the promise (if still pending); thrown out of a callback of the
\* backend it is lost.
Uncaught(st, what, inExecutor) ==
    LET st1 == Log(st, Ev(what, <<>>, NoStream))
    IN IF inExecutor /\ st.promise = "pending"
       THEN [st1 EXCEPT !.promise = "rejected",
                        !.error = parseError(what, <<>>),
                        !.settledAt = Len(st1.log)]
       ELSE st1

\* successCallback of obtainAudioAndVideoPermissions.
successCallback(st, streams) ==
    resolve(st, handleLocalStream(streams, st.resolution))

\* ------------------------------------------------------------ obtainDevices
\* options.streams[key], undefined when the key was never set.
StreamOf(streams, key) ==
    IF \E i \in 1..Len(streams) : streams[i].key = key
    THEN streams[CHOOSE i \in 1..Len(streams) : streams[i].key = key].stream
    ELSE NoStream

\* Mutant of SetStream: the new stream is the only one kept.
SetStreamOnly(streams, key, stream) == << [key |-> key, stream |-> stream] >>

\* options.streams[key] = stream: a new key goes last, a known key keeps
\* its place.
SetStream(streams, key, stream) ==
    IF \E i \in 1..Len(streams) : streams[i].key = key
    THEN [i \in 1..Len(streams) |->
            IF streams[i].key = key
            THEN [key |-> key, stream |-> stream] ELSE streams[i]]
    ELSE Append(streams, [key |-> key, stream |-> stream])

\* The keys of deviceGUM: "desktop" only when the screen obtainer is
\* supported.
deviceGUM == {"audio", "video"} \cup (IF screenSupported THEN {"desktop"} ELSE {})

\* A call the backend has not answered yet, with the callbacks it was given:
\* cb names them, device and stream are what their closures hold.
Call(api, um, cb, device, stream) ==
    [api |-> api, um |-> um, cb |-> cb, device |-> device, stream |-> stream]

\* Mutant of obtainDevicesError: after the rollback and the rejection it
\* goes on to the next pending device.
obtainDevicesErrorGoesOn(st, device, cause) ==
    LET stops == [i \in 1..Len(st.streams) |->
                    Ev("stop", <<>>, st.streams[i].stream)]
        st1 == reject([st EXCEPT !.log = @ \o stops],
                      parseError(cause, <<device>>))
    IN IF Len(st1.devices) = 0 \/ Head(st1.devices) = "desktop"
       THEN st1
       ELSE [Log(st1, Ev("gum", <<Head(st1.devices)>>, NoStream)) EXCEPT
               !.devices = Tail(@),
               !.calls = @ \cup {Call("gum", <<Head(st1.devices)>>,
                                      "obtainDevices", Head(st1.devices),
                                      NoStream)}]

\* Mutant of obtainDevicesError: the error is classified with the failed
\* device and the devices still pending.
obtainDevicesErrorWithPending(st, device, cause) ==
    LET stops == [i \in 1..Len(st.streams) |->
                    Ev("stop", <<>>, st.streams[i].stream)]
        st1 == [st EXCEPT !.log = @ \o stops]
    IN reject(st1, parseError(cause, <<device>> \o st.devices))

\* Mutant of obtainDevicesError: the rollback stops options.streams[k] of
\* every kind, captured or not.
obtainDevicesErrorStopsAllKinds(st, device, cause) ==
    LET all == <<"audio", "video", "desktop">>
        stops == [i \in 1..Len(all) |->
                    Ev("stop", <<>>, StreamOf(st.streams, all[i]))]
        st1 == [st EXCEPT !.log = @ \o stops]
    IN reject(st1, parseError(cause, <<device>>))

\* The error callback obtainDevices gives to deviceGUM[device].
obtainDevicesError(st, device, cause) ==
    LET stops == [i \in 1..Len(st.streams) |->
                    Ev("stop", <<>>, st.streams[i].stream)]
        st1 == [st EXCEPT !.log = @ \o stops]
    IN reject(st1, parseError(cause, <<device>>))

\* The error callback of the combined getUserMedia call.
combinedError(st, cause) == reject(st, parseError(cause, st.devices))

\* getUserMediaWithConstraints with getUM: the native getUserMedia is
\* called; when it throws, getUM's catch calls failure_callback at once
\* (and setAvailableDevices is not called).
getUserMediaWithConstraints(st, um, cb, device, throws) ==
    LET st1 == Log(st, Ev("gum", um, NoStream))
    IN IF throws
       THEN LET st2 == Log(st1, Ev("gumThrow", um, NoStream))
            IN IF cb = "obtainDevices"
               THEN obtainDevicesError(st2, device, "thrown")
               ELSE combinedError(st2, "thrown")
       ELSE [st1 EXCEPT !.calls = @ \cup {Call("gum", um, cb, device, NoStream)}]

\* screenObtainer.obtainStream(success, error).  A screen obtainer that is
\* not supported has no obtainStream to call (deviceGUM binds it only under
\* isSupported() for that reason), so the call is a TypeError.
obtainStream(st, cb, device, stream, inExecutor) ==
    IF ~screenSupported
    THEN Uncaught(st, "typeError", inExecutor)
    ELSE [Log(st, Ev("desktop", <<"desktop">>, NoStream)) EXCEPT
            !.calls = @ \cup {Call("desktop", <<"desktop">>, cb, device, stream)}]

\* Mutant of obtainDevices: takes the last pending device, not the first.
obtainDevicesFromEnd(st, throws, inExecutor) ==
    IF Len(st.devices) = 0
    THEN successCallback(st,
            Bundle(NoStream, StreamOf(st.streams, "audio"),
                   StreamOf(st.streams, "video"), NoStream,
                   StreamOf(st.streams, "desktop")))
    ELSE LET device == st.devices[Len(st.devices)]
             st1 == [st EXCEPT !.devices = SubSeq(@, 1, Len(@) - 1)]
         IN IF device \notin deviceGUM
            THEN Uncaught(st1, "typeError", inExecutor)
            ELSE IF device = "desktop"
            THEN obtainStream(st1, "obtainDevices", device, NoStream,
                              inExecutor)
            ELSE getUserMediaWithConstraints(st1, <<device>>, "obtainDevices",
                                             device, throws)

obtainDevices(st, throws, inExecutor) ==
    IF Len(st.devices) = 0
    THEN successCallback(st,
            Bundle(NoStream, StreamOf(st.streams, "audio"),
                   StreamOf(st.streams, "video"), NoStream,
                   StreamOf(st.streams, "desktop")))
    ELSE LET device == Head(st.devices)
             st1 == [st EXCEPT !.devices = Tail(@)]
         IN IF device \notin deviceGUM
            THEN Uncaught(st1, "typeError", inExecutor)
            ELSE IF device = "desktop"
            THEN obtainStream(st1, "obtainDevices", device, NoStream,
                              inExecutor)
            ELSE getUserMediaWithConstraints(st1, <<device>>, "obtainDevices",
                                             device, throws)

\* Mutant of obtainDevicesSuccess: the stream is stored and obtainDevices is
\* not called again.
obtainDevicesSuccessOnlyStores(st, device, stream, throws) ==
    [st EXCEPT !.streams = SetStream(@, device, stream)]

\* The success callback obtainDevices gives to deviceGUM[device].
obtainDevicesSuccess(st, device, stream, throws) ==
    obtainDevices([st EXCEPT !.streams = SetStream(@, device, stream)],
                  throws, FALSE)

\* ------------------------------------------- obtainAudioAndVideoPermissions
isReactNative == browser = "react-native"
isTemasysPluginUsed == browser = "temasys"

\* The backends on which audio and video are obtained by one call each.
perDeviceBackend == isFirefox \/ isReactNative \/ isTemasysPluginUsed

\* Mutant of DefaultDevices: an empty array counts as no array.
DefaultDevicesEmptyIsNone(req) ==
    IF req.given /\ Len(req.list) > 0 THEN req.list ELSE <<"audio", "video">>

\* options.devices || ['audio', 'video']: an empty array is an array.
DefaultDevices(req) ==
    IF req.given THEN req.list ELSE <<"audio", "video">>

\* options.resolution || '360'
DefaultResolution(r) == IF r = "undefined" THEN "360" ELSE r

\* The success callback of the combined getUserMedia call.
combinedSuccess(st, stream, throws) ==
    IF \/ IndexOf(st.devices, "audio") # 0 /\ Len(stream.audioTracks) = 0
       \/ IndexOf(st.devices, "video") # 0 /\ Len(stream.videoTracks) = 0
    THEN reject(stopMediaStream(st, stream),
                parseError("no tracks", st.devices))
    ELSE IF st.hasDesktop
    THEN obtainStream(st, "combinedDesktop", "desktop", stream, FALSE)
    ELSE successCallback(st,
            Bundle(stream, NoStream, NoStream, NoStream, NoStream))

\* The callbacks of the desktop call that follows the combined call.
combinedDesktopSuccess(st, stream, desktopStream) ==
    successCallback(st,
        Bundle(stream, NoStream, NoStream, desktopStream, NoStream))

combinedDesktopError(st, stream, cause) ==
    reject(stopMediaStream(st, stream), parseError(cause, st.devices))

\* The callbacks of the desktop call of a request for the desktop alone.
desktopOnlySuccess(st, stream) ==
    successCallback(st,
        Bundle(NoStream, NoStream, NoStream, stream, NoStream))

desktopOnlyError(st, cause) == reject(st, parseError(cause, <<"desktop">>))

\* Mutant of combinedStrategy: the desktop is asked for at once, beside
\* the getUserMedia call.
combinedStrategyDesktopAtOnce(st, throws) ==
    LET hasDesktop == IndexOf(st.devices, "desktop") # 0
        st1 == [st EXCEPT
                  !.hasDesktop = FALSE,
                  !.devices = IF hasDesktop
                              THEN Splice(@, IndexOf(@, "desktop")) ELSE @,
                  !.resolution = DefaultResolution(@)]
        st2 == IF hasDesktop
               THEN obtainStream(st1, "desktopOnly", "desktop", NoStream, TRUE)
               ELSE st1
    IN IF Len(st2.devices) # 0
       THEN getUserMediaWithConstraints(st2, st2.devices, "combined",
                                        "audioVideo", throws)
       ELSE st2

\* The else branch: one getUserMedia call for audio and video.
combinedStrategy(st, throws) ==
    LET hasDesktop == IndexOf(st.devices, "desktop") # 0
        st1 == [st EXCEPT
                  !.hasDesktop = hasDesktop,
                  !.devices = IF hasDesktop
                              THEN Splice(@, IndexOf(@, "desktop")) ELSE @,
                  !.resolution = DefaultResolution(@)]
    IN IF Len(st1.devices) # 0
       THEN getUserMediaWithConstraints(st1, st1.devices, "combined",
                                        "audioVideo", throws)
       ELSE IF hasDesktop
       THEN obtainStream(st1, "desktopOnly", "desktop", NoStream, TRUE)
       ELSE st1

\* The check for a desktop request on a page without desktop sharing.
rejectUnsupportedDesktop(st) ==
    IF ~screenSupported /\ IndexOf(st.devices, "desktop") # 0
    THEN reject(st, parseError("Desktop sharing is not supported!", <<>>))
    ELSE st

\* The Promise executor of obtainAudioAndVideoPermissions.
obtainAudioAndVideoPermissions(st, req, throws) ==
    LET st1 == [st EXCEPT !.started = TRUE,
                          !.given = req.given,
                          !.requested = req.list,
                          !.resolution = req.resolution,
                          !.passedResolution = req.resolution,
                          !.devices = DefaultDevices(req)]
        st2 == rejectUnsupportedDesktop(st1)
    IN IF perDeviceBackend
       THEN obtainDevices([st2 EXCEPT !.streams = <<>>], throws, TRUE)
       ELSE combinedStrategy(st2, throws)

\* ----------------------------------------------------------- getConstraints
isChrome == browser = "chrome"
isAndroid == gc.android

\* service/RTC/Resolutions: the known resolution labels with their sizes.
Resolutions ==
    [r \in {"360", "720"} |->
        IF r = "360" THEN [width |-> 640, height |-> 360]
        ELSE [width |-> 1280, height |-> 720]]

\* window.screen
Screen == [width |-> 1920, height |-> 1080]

\* The mandatory object of a constraint: a number that is not set is 0, a
\* string that is not set is "absent".
NoMandatory ==
    [chromeMediaSource |-> "absent", chromeMediaSourceId |-> "absent",
     googLeakyBucket |-> FALSE,
     minWidth |-> 0, minHeight |-> 0, maxWidth |-> 0, maxHeight |-> 0,
     minFrameRate |-> 0, maxFrameRate |-> 0]

\* constraints.audio and constraints.video: false, true, or an object whose
\* mandatory and optional properties may be missing.
False ==
    [form |-> "false", hasMandatory |-> FALSE, mandatory |-> NoMandatory,
     hasOptional |-> FALSE, optional |-> <<>>, deviceId |-> "absent",
     mozMediaSource |-> "absent", mediaSource |-> "absent"]
True == [False EXCEPT !.form = "true"]
\* { mandatory: {}, optional: [] }
EmptyConstraint ==
    [False EXCEPT !.form = "object", !.hasMandatory = TRUE, !.hasOptional = TRUE]

\* One entry of an optional array: {key: value}, the value a string or a
\* number.
Opt(key, str, num) == [key |-> key, str |-> str, num |-> num]

\* An option that is a string counts as given when it is not empty, one that
\* is a number when it is not 0 (undefined is "" and 0).
GivenStr(s) == s # ""
GivenNum(n) == n # 0

\* The sizes setResolutionConstraints asks for: those of a known resolution,
\* 320x180 at 15 frames a second on Android otherwise.
resolutionMandatory(m, resolution) ==
    IF resolution \in DOMAIN Resolutions
    THEN [m EXCEPT !.minWidth = Resolutions[resolution].width,
                   !.minHeight = Resolutions[resolution].height]
    ELSE IF isAndroid
    THEN [m EXCEPT !.minWidth = 320, !.minHeight = 180, !.maxFrameRate = 15]
    ELSE m

\* A minimum that is set becomes the maximum too.
maxOfMin(m) ==
    [m EXCEPT !.maxWidth = IF m.minWidth # 0 THEN m.minWidth ELSE @,
              !.maxHeight = IF m.minHeight # 0 THEN m.minHeight ELSE @]

\* Mutant of setResolutionConstraints: only the width gets its maximum.
setResolutionConstraintsWidthOnly(video, resolution) ==
    [video EXCEPT !.mandatory =
        [resolutionMandatory(@, resolution) EXCEPT
            !.maxWidth = IF resolutionMandatory(video.mandatory, resolution).minWidth # 0
                         THEN resolutionMandatory(video.mandatory, resolution).minWidth
                         ELSE @]]

setResolutionConstraints(video, resolution) ==
    [video EXCEPT !.mandatory = maxOfMin(resolutionMandatory(@, resolution))]

\* A constraint with the device asked for, in both forms.
withDeviceId(c, id) ==
    IF GivenStr(id)
    THEN [c EXCEPT !.deviceId = id,
                   !.optional = Append(@, Opt("sourceId", id, 0))]
    ELSE c

\* constraints.video after the branch for 'video'.
cameraConstraints(options) ==
    setResolutionConstraints(
        [withDeviceId(EmptyConstraint, options.cameraDeviceId) EXCEPT
            !.optional = Append(@, Opt("googLeakyBucket", "true", 0))],
        options.resolution)

\* constraints.audio after the branch for 'audio'.
audioConstraints(options) ==
    IF isReactNative THEN True
    ELSE IF ~isFirefox
    THEN [withDeviceId(EmptyConstraint, options.micDeviceId) EXCEPT !.optional = @ \o
                <<Opt("googEchoCancellation", "true", 0),
                  Opt("googAutoGainControl", "true", 0),
                  Opt("googNoiseSupression", "true", 0),
                  Opt("googHighpassFilter", "true", 0),
                  Opt("googNoisesuppression2", "true", 0),
                  Opt("googEchoCancellation2", "true", 0),
                  Opt("googAutoGainControl2", "true", 0)>>]
    ELSE IF GivenStr(options.micDeviceId)
    THEN [EmptyConstraint EXCEPT
            !.deviceId = options.micDeviceId,
            !.optional = <<Opt("sourceId", options.micDeviceId, 0)>>]
    ELSE True

\* constraints.video of 'screen' on Chrome and of 'desktop'.
chromeMediaSource(source, id) ==
    [EmptyConstraint EXCEPT
        !.mandatory = [NoMandatory EXCEPT
                         !.chromeMediaSource = source,
                         !.chromeMediaSourceId = id,
                         !.googLeakyBucket = TRUE,
                         !.maxWidth = Screen.width,
                         !.maxHeight = Screen.height,
                         !.maxFrameRate = 3]]

\* constraints.video after the branch for 'screen'; on a browser that is
\* neither Chrome nor Temasys nor Firefox an error is logged and
\* constraints.video stays as it was.
screenConstraints(video) ==
    IF isChrome THEN chromeMediaSource("screen", "absent")
    ELSE IF isTemasysPluginUsed
    THEN [False EXCEPT !.form = "object", !.hasOptional = TRUE,
                       !.optional = <<Opt("sourceId", "screensharingKey", 0)>>]
    ELSE IF isFirefox
    THEN [False EXCEPT !.form = "object", !.mozMediaSource = "window",
                       !.mediaSource = "window"]
    ELSE video

\* constraints after the branches for the kinds of um (and whether the
\* branch for 'screen' logged its error).
kindConstraints(um, options) ==
    [audio |-> IF IndexOf(um, "audio") # 0 THEN audioConstraints(options) ELSE False,
     video |-> IF IndexOf(um, "desktop") # 0
               THEN chromeMediaSource("desktop", options.desktopStream)
               ELSE IF IndexOf(um, "screen") # 0
               THEN screenConstraints(IF IndexOf(um, "video") # 0
                                      THEN cameraConstraints(options) ELSE False)
               ELSE IF IndexOf(um, "video") # 0
               THEN cameraConstraints(options) ELSE False,
     fake |-> FALSE,
     logged |-> /\ IndexOf(um, "screen") # 0
                /\ ~(isChrome \/ isTemasysPluginUsed \/ isFirefox)]

\* Mutant of minFpsFallback: options.fps is taken and deleted.
minFpsFallbackTakesFps(options) ==
    [options EXCEPT !.minFps = options.fps, !.fps = 0]

\* options.minFps = options.minFps || options.fps
minFpsFallback(options) ==
    [options EXCEPT !.minFps = IF GivenNum(@) THEN @ ELSE options.fps]

\* constraints.video, or { mandatory: {}, optional: [] } in place of false.
videoObject(video) == IF video.form = "false" THEN EmptyConstraint ELSE video

\* What a call of getConstraints gives: the constraints it returns or the
\* TypeError it throws, and the options object as the call leaves it.
Returned(constraints, options) ==
    [threw |-> FALSE, constraints |-> constraints, options |-> options]
Thrown(options) ==
    [threw |-> TRUE,
     constraints |-> [audio |-> False, video |-> False, fake |-> FALSE,
                      logged |-> FALSE],
     options |-> options]

\* if (options.bandwidth): the push on an object without optional throws.
setBandwidth(c) ==
    IF ~GivenNum(c.options.bandwidth) THEN c
    ELSE IF ~videoObject(c.constraints.video).hasOptional THEN Thrown(c.options)
    ELSE [c EXCEPT !.constraints.video =
            [videoObject(@) EXCEPT !.optional =
                Append(@, Opt("bandwidth", "", c.options.bandwidth))]]

\* if (options.minFps || options.maxFps || options.fps): the assignment to
\* a property of mandatory throws on an object without mandatory;
\* options.minFps has its fallback by then.
setFps(c) ==
    IF \/ c.threw
       \/ ~(\/ GivenNum(c.options.minFps) \/ GivenNum(c.options.maxFps)
            \/ GivenNum(c.options.fps))
    THEN c
    ELSE IF ~videoObject(c.constraints.video).hasMandatory
    THEN Thrown(IF GivenNum(c.options.minFps) \/ GivenNum(c.options.fps)
                THEN minFpsFallback(c.options) ELSE c.options)
    ELSE [c EXCEPT
            !.options = IF GivenNum(@.minFps) \/ GivenNum(@.fps)
                        THEN minFpsFallback(@) ELSE @,
            !.constraints.video =
                [videoObject(@) EXCEPT
                    !.mandatory.minFrameRate =
                        IF GivenNum(c.options.minFps) \/ GivenNum(c.options.fps)
                        THEN minFpsFallback(c.options).minFps ELSE @,
                    !.mandatory.maxFrameRate =
                        IF GivenNum(c.options.maxFps) THEN c.options.maxFps ELSE @]]

\* if (RTCBrowserType.isFirefox() && options.firefox_fake_device)
setFake(c) ==
    IF c.threw THEN c
    ELSE [c EXCEPT !.constraints.fake = isFirefox /\ c.options.firefox_fake_device]

getConstraints(um, options) ==
    setFake(setFps(setBandwidth(Returned(kindConstraints(um, options), options))))

\* ---------------------------------------------------------------- history
\* The log entries that end a getUserMedia attempt: its answer, or the
\* exception of the call.
AttemptEnds == {"gumSuccess", "gumError", "gumThrow"}

\* How the last attempt of kind k ended, after a step that took the log of
\* an acquisition from old to new: as before when the step ended none.
LastEnd(prev, old, new, k) ==
    LET I == {i \in (Len(old) + 1)..Len(new) :
                new[i].ev \in AttemptEnds /\ IndexOf(new[i].um, k) # 0}
        last == CHOOSE i \in I : \A j \in I : j <= i
    IN IF I = {} THEN prev
       ELSE IF new[last].ev = "gumSuccess" THEN "success" ELSE "failure"

\* The history after a step of acquisition a.
Recorded(a) ==
    lastAttempt' =
        [k \in {"audio", "video"} |->
            LastEnd(lastAttempt[k], acq[a].log, acq'[a].log, k)]

\* -------------------------------------------------------------- the actions
\* A caller calls obtainAudioAndVideoPermissions(options).
Start(a, req, throws) ==
    /\ ~acq[a].started
    /\ acq' = [acq EXCEPT ![a] = obtainAudioAndVideoPermissions(@, req, throws)]
    /\ Recorded(a)
    /\ UNCHANGED <<browser, screenSupported, devices, norm, gc,
                 getUserMediaStatus, wrapped>>

\* The streams the backend may answer a getUserMedia call with.
GumStreams(a, c) ==
    {MkStream(a, c.device, n, m) :
        n \in IF IndexOf(c.um, "audio") # 0 THEN 0..MaxTracks ELSE {0},
        m \in IF IndexOf(c.um, "video") # 0 THEN 0..MaxTracks ELSE {0}}

\* The streams the screen obtainer may answer with.
DesktopStreams(a, c) == {MkStream(a, "desktop", 0, m) : m \in 1..MaxTracks}

\* getUM's success callback: the native getUserMedia answers with a stream.
GumSuccess(a, c, stream, throws) ==
    /\ c \in acq[a].calls /\ c.api = "gum"
    /\ stream \in GumStreams(a, c)
    /\ devices' = setAvailableDevices(devices, c.um, TRUE)
    /\ LET st0 == Log([acq[a] EXCEPT !.calls = @ \ {c}],
                      Ev("gumSuccess", c.um, stream))
           st1 == [st0 EXCEPT !.log = @ \o EmitAvailableDevices(devices, devices')]
       IN acq' = [acq EXCEPT ![a] =
                    IF c.cb = "obtainDevices"
                    THEN obtainDevicesSuccess(st1, c.device, stream, throws)
                    ELSE combinedSuccess(st1, stream, throws)]
    /\ Recorded(a)
    /\ UNCHANGED <<browser, screenSupported, norm, gc,
                 getUserMediaStatus, wrapped>>

\* getUM's error callback: the native getUserMedia answers with an error.
GumError(a, c) ==
    /\ c \in acq[a].calls /\ c.api = "gum"
    /\ devices' = setAvailableDevices(devices, c.um, FALSE)
    /\ LET st0 == Log([acq[a] EXCEPT !.calls = @ \ {c}],
                      Ev("gumError", c.um, NoStream))
           st1 == [st0 EXCEPT !.log = @ \o EmitAvailableDevices(devices, devices')]
       IN acq' = [acq EXCEPT ![a] =
                    IF c.cb = "obtainDevices"
                    THEN obtainDevicesError(st1, c.device, "error")
                    ELSE combinedError(st1, "error")]
    /\ Recorded(a)
    /\ UNCHANGED <<browser, screenSupported, norm, gc,
                 getUserMediaStatus, wrapped>>

\* The screen obtainer was initialised with getUserMediaWithConstraints
\* (onReady: screenObtainer.init(options, GUM)), and getConstraints knows the
\* kinds 'screen' and 'desktop' it may call it with.  An answer of the
\* obtainer comes out of such a call, whose getUM callback has called
\* setAvailableDevices(um, ...) first, or out of no call at all ("none").
ScreenGum == {"none", "screen", "desktop"}

screenObtainerGum(flags, via, available) ==
    IF via = "none" THEN flags ELSE setAvailableDevices(flags, <<via>>, available)

screenObtainerEmit(old, new, via) ==
    IF via = "none" THEN <<>> ELSE EmitAvailableDevices(old, new)

\* The screen obtainer answers with a stream.
DesktopSuccess(a, c, stream, via, throws) ==
    /\ c \in acq[a].calls /\ c.api = "desktop"
    /\ stream \in DesktopStreams(a, c)
    /\ via \in ScreenGum
    /\ devices' = screenObtainerGum(devices, via, TRUE)
    /\ LET st0 == Log([acq[a] EXCEPT !.calls = @ \ {c}],
                      Ev("desktopSuccess", c.um, stream))
           st1 == [st0 EXCEPT !.log = @ \o screenObtainerEmit(devices, devices', via)]
       IN acq' = [acq EXCEPT ![a] =
                    CASE c.cb = "obtainDevices" ->
                            obtainDevicesSuccess(st1, c.device, stream, throws)
                      [] c.cb = "combinedDesktop" ->
                            combinedDesktopSuccess(st1, c.stream, stream)
                      [] OTHER -> desktopOnlySuccess(st1, stream)]
    /\ Recorded(a)
    /\ UNCHANGED <<browser, screenSupported, norm, gc,
                 getUserMediaStatus, wrapped>>

\* The screen obtainer answers with an error.
DesktopError(a, c, via) ==
    /\ c \in acq[a].calls /\ c.api = "desktop"
    /\ via \in ScreenGum
    /\ devices' = screenObtainerGum(devices, via, FALSE)
    /\ LET st0 == Log([acq[a] EXCEPT !.calls = @ \ {c}],
                      Ev("desktopError", c.um, NoStream))
           st1 == [st0 EXCEPT !.log = @ \o screenObtainerEmit(devices, devices', via)]
       IN acq' = [acq EXCEPT ![a] =
                    CASE c.cb = "obtainDevices" ->
                            obtainDevicesError(st1, c.device, "error")
                      [] c.cb = "combinedDesktop" ->
                            combinedDesktopError(st1, c.stream, "error")
                      [] OTHER -> desktopOnlyError(st1, "error")]
    /\ Recorded(a)
    /\ UNCHANGED <<browser, screenSupported, norm, gc,
                 getUserMediaStatus, wrapped>>

\* An options object with no property given.
NoOptions ==
    [resolution |-> "", bandwidth |-> 0, minFps |-> 0, maxFps |-> 0,
     fps |-> 0, desktopStream |-> "", cameraDeviceId |-> "",
     micDeviceId |-> "", firefox_fake_device |-> FALSE]

\* getConstraints has not been called on its own.
NoBuild ==
    [android |-> FALSE, um |-> <<>>, given |-> NoOptions,
     options |-> NoOptions, calls |-> <<>>]

\* var getUserMediaStatus = { initialized: false, callbacks: [] }
NoStatus == [initialized |-> FALSE, callbacks |-> <<>>]

\* No wrapped function has been called: no getUserMedia call is under way,
\* no enumeration is under way, nothing has happened.
NoWrapped == [calls |-> <<>>, enumerating |-> {}, delivered |-> {}, log |-> <<>>]

\* handleLocalStream has not been called on its own.
NoCall ==
    [streams |-> NoBundle, resolution |-> "undefined",
     res |-> <<>>, returned |-> FALSE]

Init ==
    /\ browser \in Browsers
    /\ screenSupported \in BOOLEAN
    /\ devices = [audio |-> TRUE, video |-> TRUE]
    /\ acq = [a \in Acqs |-> NewAcq]
    /\ lastAttempt = [k \in {"audio", "video"} |-> "none"]
    /\ norm = NoCall
    /\ gc = NoBuild
    /\ getUserMediaStatus = NoStatus
    /\ wrapped = NoWrapped

Next ==
    \/ \E a \in Acqs : \E req \in RequestsOf(a), throws \in BOOLEAN :
          Start(a, req, throws)
    \/ \E a \in Acqs : \E c \in acq[a].calls :
          \E s \in GumStreams(a, c), throws \in BOOLEAN :
             GumSuccess(a, c, s, throws)
    \/ \E a \in Acqs : \E c \in acq[a].calls : GumError(a, c)
    \/ \E a \in Acqs : \E c \in acq[a].calls :
          \E s \in DesktopStreams(a, c), via \in ScreenGum, throws \in BOOLEAN :
             DesktopSuccess(a, c, s, via, throws)
    \/ \E a \in Acqs : \E c \in acq[a].calls :
          \E via \in ScreenGum : DesktopError(a, c, via)

Spec == Init /\ [][Next]_vars

\* Every backend call answers: as long as acquisition a has a call
\* outstanding, the backend invokes the success or the error callback of one
\* of them.
Answer(a) ==
    \E c \in acq[a].calls :
        \/ \E s \in GumStreams(a, c), throws \in BOOLEAN :
              GumSuccess(a, c, s, throws)
        \/ GumError(a, c)
        \/ \E s \in DesktopStreams(a, c), via \in ScreenGum, throws \in BOOLEAN :
              DesktopSuccess(a, c, s, via, throws)
        \/ \E via \in ScreenGum : DesktopError(a, c, via)

FairSpec == Spec /\ \A a \in Acqs : WF_vars(Answer(a))

\* ------------------------------------------- handleLocalStream on its own
\* The streams handleLocalStream may find in a bundle: of one media type,
\* with no track or some.
AudioInputs == {MkStream(1, "audio", n, 0) : n \in 0..MaxBundleTracks}
VideoInputs == {MkStream(1, "video", 0, m) : m \in 0..MaxBundleTracks}
DesktopInputs == {MkStream(1, "desktop", 0, m) : m \in 0..MaxBundleTracks}
AudioVideoInputs ==
    {MkStream(1, "audioVideo", n, m) :
        n \in 0..MaxBundleTracks, m \in 0..MaxBundleTracks}

\* The bundles of the combined strategy, of the per-device strategy, and no
\* bundle.
Bundles ==
    {Bundle(av, NoStream, NoStream, ds, NoStream) :
        av \in AudioVideoInputs, ds \in DesktopInputs \cup {NoStream}}
    \cup {Bundle(NoStream, au, vi, NoStream, de) :
            au \in AudioInputs \cup {NoStream},
            vi \in VideoInputs \cup {NoStream},
            de \in DesktopInputs \cup {NoStream}}
    \cup {NoBundle}

InitNormalizer ==
    /\ browser = "chrome"
    /\ screenSupported = TRUE
    /\ devices = [audio |-> TRUE, video |-> TRUE]
    /\ acq = [a \in Acqs |-> NewAcq]
    /\ lastAttempt = [k \in {"audio", "video"} |-> "none"]
    /\ norm \in {[NoCall EXCEPT !.streams = b, !.resolution = r] :
                    b \in Bundles, r \in ResolutionInputs}
    /\ gc = NoBuild
    /\ getUserMediaStatus = NoStatus
    /\ wrapped = NoWrapped

\* handleLocalStream(streams, resolution) returns.
Normalize ==
    /\ ~norm.returned
    /\ norm' = [norm EXCEPT
                  !.res = handleLocalStream(norm.streams, norm.resolution),
                  !.returned = TRUE]
    /\ UNCHANGED <<browser, screenSupported, devices, acq, lastAttempt, gc,
                   getUserMediaStatus, wrapped>>

NextNormalizer == Normalize

NormalizerSpec == InitNormalizer /\ [][NextNormalizer]_vars

\* ---------------------------------------------- getConstraints on its own
\* RTCBrowserType for getConstraints: "other" is a browser that is none of
\* those it asks for.
BuilderBrowsers == {"chrome", "firefox", "react-native", "temasys", "other"}

\* The um arrays: every set of kinds, in one order.
Ums ==
    {a \o v \o s \o d :
        a \in {<<>>, <<"audio">>}, v \in {<<>>, <<"video">>},
        s \in {<<>>, <<"screen">>}, d \in {<<>>, <<"desktop">>}}

\* The options objects; a property that is not given is "" or 0.
OptionsInputs ==
    [resolution : {"", "360", "4k"},
     bandwidth : {0, 64},
     minFps : {0, 10}, maxFps : {0, 30}, fps : {0, 20},
     desktopStream : {""},
     cameraDeviceId : {"", "cam"},
     micDeviceId : {"", "mic"},
     firefox_fake_device : BOOLEAN]

\* Most calls of getConstraints with the one options object.
BuilderCalls == 2

InitBuilder ==
    /\ browser \in BuilderBrowsers
    /\ screenSupported = TRUE
    /\ devices = [audio |-> TRUE, video |-> TRUE]
    /\ acq = [a \in Acqs |-> NewAcq]
    /\ lastAttempt = [k \in {"audio", "video"} |-> "none"]
    /\ norm = NoCall
    /\ gc \in {[NoBuild EXCEPT !.android = an, !.um = um,
                                !.given = o, !.options = o] :
                  an \in BOOLEAN, um \in Ums, o \in OptionsInputs}
    /\ getUserMediaStatus = NoStatus
    /\ wrapped = NoWrapped

\* getConstraints(um, options) is called, with the options object of the
\* call before, and returns or throws.
Build ==
    /\ Len(gc.calls) < BuilderCalls
    /\ LET r == getConstraints(gc.um, gc.options)
       IN gc' = [gc EXCEPT !.calls = Append(@, r), !.options = r.options]
    /\ UNCHANGED <<browser, screenSupported, devices, acq, lastAttempt, norm,
                   getUserMediaStatus, wrapped>>

NextBuilder == Build

BuilderSpec == InitBuilder /\ [][NextBuilder]_vars

\* ------------------------- the wrapped getUserMedia and enumerateDevices
\* Most calls of the wrapped getUserMedia, most calls of the wrapped
\* enumerateDevices.
MaxGumCalls == 2
MaxRequests == 2

GumCalls == 1..MaxGumCalls
EnumRequests == 1..MaxRequests

\* The successCallback a caller hands to the wrapped getUserMedia: none, a
\* function that returns, one that throws, one that calls the wrapped
\* enumerateDevices.
SuccessCallbacks == {"undefined", "returns", "throws", "enumerates"}

\* What the native enumerateDevices resolves with.
NativeDevices == {<<"camera">>}

\* createAutoDeviceInfo('audioinput'), createAutoDeviceInfo('videoinput')
createAutoDeviceInfo(kind) == "Auto " \o kind
AutoDevices == <<createAutoDeviceInfo("audioinput"), createAutoDeviceInfo("videoinput")>>

\* getUserMediaStatus and the wrapped functions' state as one record, for
\* the handlers below.
Wrapper ==
    [initialized |-> getUserMediaStatus.initialized,
     callbacks |-> getUserMediaStatus.callbacks,
     calls |-> wrapped.calls,
     enumerating |-> wrapped.enumerating,
     delivered |-> wrapped.delivered,
     log |-> wrapped.log]

\* One thing that happened: a request of the wrapped enumerateDevices, an
\* answer of getUserMedia, a callback that was applied or run.
WEv(ev, id) == [ev |-> ev, id |-> id]
WLog(w, ev, id) == [w EXCEPT !.log = Append(@, WEv(ev, id))]

\* The requests made so far of the wrapped enumerateDevices.
Registered(w) == Cardinality({i \in DOMAIN w.log : w.log[i].ev = "enumerateDevices"})

\* The function wrapEnumerateDevices gives to afterUserMediaInitialized: it
\* calls the native enumerateDevices.
enumerateCallback(w, id) ==
    [WLog(w, "callback", id) EXCEPT !.enumerating = @ \cup {id}]

afterUserMediaInitialized(w, id) ==
    IF w.initialized THEN enumerateCallback(w, id)
    ELSE [w EXCEPT !.callbacks = Append(@, id)]

\* The function wrapEnumerateDevices returns.
wrappedEnumerateDevices(w, id) ==
    afterUserMediaInitialized(WLog(w, "enumerateDevices", id), id)

\* getUserMediaStatus.callbacks.forEach(callback => callback())
RECURSIVE forEachCallback(_, _)
forEachCallback(w, cbs) ==
    IF cbs = <<>> THEN w
    ELSE forEachCallback(enumerateCallback(w, Head(cbs)), Tail(cbs))

\* maybeApply(successCallback, [stream])
maybeApply(w, c) ==
    IF w.calls[c].successCallback = "undefined" THEN w
    ELSE IF w.calls[c].successCallback = "enumerates"
    THEN wrappedEnumerateDevices(WLog(w, "successCallback", c), Registered(w) + 1)
    ELSE WLog(w, "successCallback", c)

\* if (!getUserMediaStatus.initialized) { ... }
initialize(w, c) ==
    IF w.initialized THEN w
    ELSE [forEachCallback(WLog([w EXCEPT !.initialized = TRUE], "initialized", c),
                          w.callbacks)
            EXCEPT !.callbacks = <<>>]

\* Mutant of wrappedSuccess: the callbacks are run before the
\* successCallback.
wrappedSuccessCallbacksFirst(w, c) ==
    IF w.calls[c].successCallback = "throws"
    THEN maybeApply(WLog([w EXCEPT !.calls[c].state = "succeeded"], "success", c), c)
    ELSE maybeApply(initialize(
            WLog([w EXCEPT !.calls[c].state = "succeeded"], "success", c), c), c)

\* The success function the wrapper hands to the native getUserMedia; a
\* successCallback that throws ends it.
wrappedSuccess(w, c) ==
    IF w.calls[c].successCallback = "throws"
    THEN maybeApply(WLog([w EXCEPT !.calls[c].state = "succeeded"], "success", c), c)
    ELSE initialize(maybeApply(
            WLog([w EXCEPT !.calls[c].state = "succeeded"], "success", c), c), c)

\* The error function the wrapper hands to the native getUserMedia.
wrappedError(w, c) ==
    WLog([w EXCEPT !.calls[c].state = "failed"], "error", c)

\* The function wrapGetUserMedia returns: it calls the native getUserMedia.
wrappedGetUserMedia(w, sc) ==
    [w EXCEPT !.calls = Append(@, [successCallback |-> sc, state |-> "pending"])]

\* The functions given to then() of the native enumerateDevices: the
\* caller's callback gets the two Auto devices, then the devices found.
enumerated(w, id, ok, devs) ==
    [w EXCEPT !.enumerating = @ \ {id},
              !.delivered = @ \cup
                  {[id |-> id,
                    devices |-> IF ok THEN AutoDevices \o devs ELSE AutoDevices]}]

Becomes(w) ==
    /\ getUserMediaStatus' = [initialized |-> w.initialized, callbacks |-> w.callbacks]
    /\ wrapped' = [calls |-> w.calls, enumerating |-> w.enumerating,
                   delivered |-> w.delivered, log |-> w.log]
    /\ UNCHANGED <<browser, screenSupported, devices, acq, lastAttempt, norm, gc>>

InitWrapper ==
    /\ browser = "chrome"
    /\ screenSupported = TRUE
    /\ devices = [audio |-> TRUE, video |-> TRUE]
    /\ acq = [a \in Acqs |-> NewAcq]
    /\ lastAttempt = [k \in {"audio", "video"} |-> "none"]
    /\ norm = NoCall
    /\ gc = NoBuild
    /\ getUserMediaStatus = NoStatus
    /\ wrapped = NoWrapped

CallGetUserMedia(sc) ==
    /\ Len(wrapped.calls) < MaxGumCalls
    /\ Becomes(wrappedGetUserMedia(Wrapper, sc))

GetUserMediaSuccess(c) ==
    /\ c \in DOMAIN wrapped.calls
    /\ wrapped.calls[c].state = "pending"
    /\ wrapped.calls[c].successCallback = "enumerates" => Registered(Wrapper) < MaxRequests
    /\ Becomes(wrappedSuccess(Wrapper, c))

GetUserMediaError(c) ==
    /\ c \in DOMAIN wrapped.calls
    /\ wrapped.calls[c].state = "pending"
    /\ Becomes(wrappedError(Wrapper, c))

CallEnumerateDevices ==
    /\ Registered(Wrapper) < MaxRequests
    /\ Becomes(wrappedEnumerateDevices(Wrapper, Registered(Wrapper) + 1))

EnumerateDevicesAnswer(id, ok, devs) ==
    /\ id \in wrapped.enumerating
    /\ Becomes(enumerated(Wrapper, id, ok, devs))

NextWrapper ==
    \/ \E sc \in SuccessCallbacks : CallGetUserMedia(sc)
    \/ \E c \in GumCalls : GetUserMediaSuccess(c)
    \/ \E c \in GumCalls : GetUserMediaError(c)
    \/ CallEnumerateDevices
    \/ \E id \in EnumRequests, devs \in NativeDevices :
          EnumerateDevicesAnswer(id, TRUE, devs)
    \/ \E id \in EnumRequests : EnumerateDevicesAnswer(id, FALSE, <<>>)

WrapperSpec == InitWrapper /\ [][NextWrapper]_vars

\* ================================================================ claims
\* What the claims speak of, read off an acquisition's log.
Sequential(a) == acq[a].started /\ perDeviceBackend
Combined(a) == acq[a].started /\ ~perDeviceBackend

\* The kinds the caller asked for.
Asked(a) == IF acq[a].given THEN acq[a].requested ELSE <<"audio", "video">>

IsCall(e) == e.ev \in {"gum", "desktop"}
IsCapture(e) == e.ev \in {"gumSuccess", "desktopSuccess"}
IsFailure(e) ==
    e.ev \in {"gumError", "gumThrow", "desktopError", "typeError"}
NotDesktop(k) == k # "desktop"

LogIdx(a) == 1..Len(acq[a].log)
CallIdx(a) == {i \in LogIdx(a) : IsCall(acq[a].log[i])}
CaptureIdx(a) == {i \in LogIdx(a) : IsCapture(acq[a].log[i])}
FailureIdx(a) == {i \in LogIdx(a) : IsFailure(acq[a].log[i])}

\* The stream captured at log entry i is released at a later entry before
\* entry j.
ReleasedBefore(a, i, j) ==
    \E k \in LogIdx(a) :
        /\ i < k /\ k < j
        /\ acq[a].log[k].ev = "stop"
        /\ acq[a].log[k].stream = acq[a].log[i].stream

\* C1: in the per-device strategy, when the capture of a kind fails, the
\* promise is rejected and every stream captured before the failure was
\* released before the promise was rejected.
C1_RollbackBeforeRejection ==
    \A a \in Acqs :
        Sequential(a) =>
            \A f \in FailureIdx(a) :
                /\ acq[a].promise = "rejected"
                /\ \A i \in CaptureIdx(a) :
                      i < f => ReleasedBefore(a, i, acq[a].settledAt)

\* C2: a request for the desktop on a page without desktop sharing is
\* rejected and issues no capture call at all, at any time, in both
\* strategies.
C2_UnsupportedDesktopNoCalls ==
    \A a \in Acqs :
        (acq[a].started /\ ~screenSupported /\ IndexOf(Asked(a), "desktop") # 0)
            => /\ acq[a].promise = "rejected"
               /\ CallIdx(a) = {}

\* C3: an acquisition of an empty list of kinds resolves with the empty
\* sequence of descriptors in both strategies.  An empty request leaves no
\* call outstanding, so once it is started nothing is left that could settle
\* its promise later: it is resolved by then or never.
C3_EmptyRequestResolves ==
    \A a \in Acqs :
        (acq[a].started /\ acq[a].given /\ acq[a].requested = <<>>
            /\ acq[a].calls = {})
            => acq[a].promise = "resolved" /\ acq[a].result = <<>>

\* C4: in the combined strategy a rejected acquisition holds no stream it
\* captured and did not release.
C4_CombinedRejectionLeavesNoStream ==
    \A a \in Acqs :
        (Combined(a) /\ acq[a].promise = "rejected")
            => \A i \in CaptureIdx(a) :
                  ReleasedBefore(a, i, Len(acq[a].log) + 1)

\* C5: in the per-device strategy the capture calls are issued in the order
\* of the request, each one only after the call before it has reported
\* success, and at most one of them is outstanding.
C5_OneCaptureAtATime ==
    \A a \in Acqs :
        Sequential(a) =>
            LET calls == SelectSeq(acq[a].log, IsCall)
            IN /\ Cardinality(acq[a].calls) <= 1
               /\ Len(calls) <= Len(Asked(a))
               /\ \A k \in 1..Len(calls) : calls[k].um = <<Asked(a)[k]>>
               /\ \A i, j \in CallIdx(a) :
                     i < j => \E s \in CaptureIdx(a) :
                                 /\ i < s /\ s < j
                                 /\ acq[a].log[s].um = acq[a].log[i].um

C5_Witness ==
    \E a \in Acqs :
        /\ Sequential(a)
        /\ Cardinality(CallIdx(a)) >= 2
        /\ acq[a].calls # {}

\* C6: in the per-device strategy no capture call is issued once the capture
\* of a kind has failed.
C6_NoCallAfterFailure ==
    \A a \in Acqs :
        Sequential(a) =>
            /\ \A f \in FailureIdx(a) : \A i \in CallIdx(a) : i < f
            /\ FailureIdx(a) # {} => acq[a].calls = {}

C6_Witness ==
    \E a \in Acqs :
        /\ Sequential(a)
        /\ \E f \in FailureIdx(a) : acq[a].log[f].ev = "gumError"
        /\ Len(acq[a].devices) > 0

\* C7: a getUserMedia attempt for audio or video that ends in failure
\* (an error answer or a throw) leaves the flag of each of its kinds false,
\* one that ends in success leaves it true.
C7_FlagFollowsAttempt ==
    [][\A a \in Acqs :
         \A i \in (Len(acq[a].log) + 1)..Len(acq'[a].log) :
            LET e == acq'[a].log[i]
            IN /\ e.ev \in {"gumError", "gumThrow"} =>
                    /\ IndexOf(e.um, "audio") # 0 => ~devices'.audio
                    /\ IndexOf(e.um, "video") # 0 => ~devices'.video
               /\ e.ev = "gumSuccess" =>
                    /\ IndexOf(e.um, "audio") # 0 => devices'.audio
                    /\ IndexOf(e.um, "video") # 0 => devices'.video]_vars

\* C8: a step emits AVAILABLE_DEVICES_CHANGED exactly when it changes a
\* flag, once, with the flags as they are now; a capture attempt that changes
\* no flag emits nothing.
C8_EmitOncePerChange ==
    [][\A a \in Acqs :
         LET added == SubSeq(acq'[a].log, Len(acq[a].log) + 1, Len(acq'[a].log))
             emits == {i \in 1..Len(added) : added[i].ev = "emit"}
         IN /\ (devices' = devices) => emits = {}
            /\ (devices' # devices /\ acq'[a] # acq[a]) =>
                  /\ Cardinality(emits) = 1
                  /\ \A i \in emits :
                        /\ added[i].payload.audio = devices'.audio
                        /\ added[i].payload.video = devices'.video]_vars

\* C9: in the combined strategy a request with audio and/or video issues
\* exactly one getUserMedia call, for all requested kinds but the desktop;
\* the desktop is asked for by a call of its own, issued only after that
\* call has succeeded and never after it has failed.
C9_OneCombinedCall ==
    \A a \in Acqs :
        Combined(a) =>
            LET log == acq[a].log
                av == SelectSeq(Asked(a), NotDesktop)
                gum == {i \in LogIdx(a) : log[i].ev = "gum"}
                desk == {i \in LogIdx(a) : log[i].ev = "desktop"}
            IN /\ Cardinality(gum) = (IF Len(av) > 0 THEN 1 ELSE 0)
               /\ \A i \in gum : log[i].um = av
               /\ Cardinality(desk) <= 1
               /\ desk # {} => IndexOf(Asked(a), "desktop") # 0
               /\ Len(av) > 0 =>
                    \A d \in desk :
                        /\ \E s \in LogIdx(a) : s < d /\ log[s].ev = "gumSuccess"
                        /\ \A f \in LogIdx(a) :
                              log[f].ev \notin {"gumError", "gumThrow"}

C9_Witness ==
    \E a \in Acqs :
        /\ Combined(a)
        /\ \E i, d \in LogIdx(a) :
              /\ acq[a].log[i].ev = "gum"
              /\ Len(acq[a].log[i].um) = 2
              /\ acq[a].log[d].ev = "desktop"

\* C10: an acquisition of an empty list of kinds issues no backend call, and
\* no step of it changes a device availability flag.
C10_EmptyRequestTouchesNothing ==
    [][\A a \in Acqs :
         (acq'[a].started /\ acq'[a].given /\ acq'[a].requested = <<>>) =>
            /\ \A i \in 1..Len(acq'[a].log) : ~IsCall(acq'[a].log[i])
            /\ acq'[a].calls = {}
            /\ acq'[a] # acq[a] => devices' = devices]_vars

C10_Witness ==
    \E a \in Acqs :
        /\ acq[a].started /\ acq[a].given /\ acq[a].requested = <<>>
        /\ ~devices.audio

\* s is a prefix of t.
IsPrefix(s, t) == Len(s) <= Len(t) /\ \A i \in 1..Len(s) : s[i] = t[i]

\* The kinds the caller of the acquisition with record st asked for.
AskedOf(st) == IF st.given THEN st.requested ELSE <<"audio", "video">>

\* The promise of st is resolved only after a capture of every kind asked
\* for, and the bundle and the resolved value hold the stream of each.
ResolvedHoldsCaptures(st) ==
    st.promise = "resolved" =>
        \A n \in 1..Len(AskedOf(st)) :
            \E i \in 1..st.settledAt :
                /\ IsCapture(st.log[i])
                /\ st.log[i].um = <<AskedOf(st)[n]>>
                /\ StreamOf(st.streams, AskedOf(st)[n]) = st.log[i].stream
                /\ \E d \in 1..Len(st.result) :
                      st.result[d].stream = st.log[i].stream

\* C11: a per-device acquisition resolves only after every kind asked for
\* was captured, its resolved value holds the stream captured for each of
\* them, and no step removes or replaces a stream it has recorded.
C11_CapturesOnlyGrow ==
    [][\A a \in Acqs :
          (perDeviceBackend /\ acq'[a].started) =>
              /\ IsPrefix(acq[a].streams, acq'[a].streams)
              /\ ResolvedHoldsCaptures(acq'[a])]_vars

\* A per-device acquisition of three kinds is resolved.
C11_Witness ==
    \E a \in Acqs :
        /\ Sequential(a) /\ acq[a].promise = "resolved"
        /\ Len(Asked(a)) = 3 /\ Len(acq[a].streams) = 3

\* The error a failed capture hands to its error callback.
CauseOf(e) == IF e.ev = "gumThrow" THEN "thrown" ELSE "error"

\* The failed captures of a: the backend answered with an error or threw.
CaptureFailureIdx(a) ==
    {f \in FailureIdx(a) : acq[a].log[f].ev # "typeError"}

\* C12: in the per-device strategy the error a failed capture rejects the
\* promise with is built from the backend's error and the one kind whose
\* capture failed, not from the kinds captured before or still pending.
C12_ErrorNamesFailedKind ==
    \A a \in Acqs :
        Sequential(a) =>
            LET log == acq[a].log
            IN \A f \in CaptureFailureIdx(a) :
                  \E r \in LogIdx(a) :
                      /\ r > f /\ log[r].ev = "reject"
                      /\ \A i \in (f + 1)..(r - 1) :
                            log[i].ev \in {"emit", "stop"}
                      /\ Len(log[f].um) = 1
                      /\ log[r].um = log[f].um
                      /\ acq[a].settledAt = r =>
                            acq[a].error =
                                parseError(CauseOf(log[f]), log[f].um)

\* The second of three kinds failed after the first was captured, and the
\* promise carries the error of that failure.
C12_Witness ==
    \E a \in Acqs :
        /\ Sequential(a) /\ acq[a].promise = "rejected"
        /\ Len(acq[a].streams) = 1 /\ Len(acq[a].devices) = 1
        /\ \E f \in CaptureFailureIdx(a) : acq[a].settledAt > f
        /\ Len(acq[a].error.devices) = 1

Added(a) == (Len(acq[a].log) + 1)..Len(acq'[a].log)

\* C14: a step changes the availability flag of a kind only when it ends a
\* getUserMedia attempt for that kind: an audio-only attempt leaves the
\* video flag alone, a video-only attempt the audio flag, and an answer of
\* the screen obtainer, stream or error, leaves both alone.
C14_OnlyAttemptedKinds ==
    [][\A k \in {"audio", "video"} :
          devices'[k] # devices[k] =>
              \E a \in Acqs : \E i \in Added(a) :
                  /\ acq'[a].log[i].ev \in {"gumSuccess", "gumError"}
                  /\ IndexOf(acq'[a].log[i].um, k) # 0]_vars

\* An audio-only attempt has failed and the video flag is still set, and
\* a screen obtainer's getUserMedia attempt has failed.
C14_Witness ==
    /\ ~devices.audio /\ devices.video
    /\ \E a \in Acqs : \E i \in LogIdx(a) :
          acq[a].log[i].ev = "gumError" /\ acq[a].log[i].um = <<"audio">>
    /\ \E a \in Acqs : \E i \in LogIdx(a) :
          /\ acq[a].log[i].ev = "desktopError"
          /\ i < Len(acq[a].log) /\ acq[a].log[i + 1].ev = "emit"

\* Every acquisition that was started is settled and has no call left.
AllSettled ==
    \A a \in Acqs :
        acq[a].started => acq[a].promise # "pending" /\ acq[a].calls = {}

\* C15: once the acquisitions have settled, the flag of each kind says how
\* the attempt of that kind that ended last ended, whichever acquisition
\* made it.
C15_LastWriteWins ==
    AllSettled =>
        \A k \in {"audio", "video"} :
            lastAttempt[k] # "none" =>
                devices[k] = (lastAttempt[k] = "success")

\* The kinds in the sequence s.
KindsIn(s) == {s[n] : n \in 1..Len(s)}

\* The kinds st has issued capture calls for.
CalledKinds(st) ==
    UNION {KindsIn(st.log[i].um) : i \in {j \in 1..Len(st.log) : IsCall(st.log[j])}}

Rank(d) ==
    IF d.mediaType = "video" /\ d.videoType = "desktop" THEN 1
    ELSE IF d.mediaType = "audio" THEN 2
    ELSE 3

\* C17: for every bundle, combined or per kind, with a desktop stream or
\* without, the descriptors handleLocalStream returns are in the order
\* desktop video, audio, camera video.
C17_FixedOrder ==
    norm.returned =>
        \A i, j \in 1..Len(norm.res) :
            i < j => Rank(norm.res[i]) < Rank(norm.res[j])

\* A combined bundle with a desktop stream gave three descriptors.
C17_Witness ==
    /\ norm.returned /\ Len(norm.res) = 3
    /\ norm.streams.audioVideo # NoStream
    /\ norm.streams.desktopStream # NoStream

\* The places of the descriptors of one media and video type in what
\* handleLocalStream returned.
Described(mediaType, videoType) ==
    {i \in 1..Len(norm.res) :
        norm.res[i].mediaType = mediaType /\ norm.res[i].videoType = videoType}

\* C18: from a combined stream handleLocalStream makes at most one audio
\* descriptor, with the first audio track of the combined stream, and at
\* most one camera descriptor, with its first video track; there is a
\* descriptor of a media type exactly when the combined stream has a track
\* of that type.
C18_FirstTrackOfCombined ==
    (norm.returned /\ norm.streams.defined
        /\ norm.streams.audioVideo # NoStream) =>
        LET av == norm.streams.audioVideo
            A == Described("audio", "null")
            V == Described("video", "camera")
        IN /\ Cardinality(A) <= 1 /\ Cardinality(V) <= 1
           /\ A # {} <=> Len(av.audioTracks) >= 1
           /\ V # {} <=> Len(av.videoTracks) >= 1
           /\ \A i \in A : norm.res[i].track = av.audioTracks[1]
           /\ \A i \in V : norm.res[i].track = av.videoTracks[1]

\* A combined stream with two audio tracks and two video tracks was
\* normalized.
C18_Witness ==
    /\ norm.returned /\ norm.streams.audioVideo # NoStream
    /\ Len(norm.streams.audioVideo.audioTracks) = 2
    /\ Len(norm.streams.audioVideo.videoTracks) = 2
    /\ Len(norm.res) = 2

\* The tracks of a stream.
TracksOf(s) ==
    {s.audioTracks[i] : i \in 1..Len(s.audioTracks)}
    \cup {s.videoTracks[i] : i \in 1..Len(s.videoTracks)}

\* The desktop stream of the bundle handleLocalStream was given.
DesktopOf(b) == IF b.desktopStream # NoStream THEN b.desktopStream ELSE b.desktop

\* C19: a desktop stream in the bundle gives exactly one descriptor of
\* video type desktop, without a resolution, made of the desktop stream and
\* a track of it; every other descriptor, the camera's among them, has
\* neither the desktop stream nor a track of it.
C19_DesktopApart ==
    (norm.returned /\ norm.streams.defined
        /\ DesktopOf(norm.streams) # NoStream) =>
        LET ds == DesktopOf(norm.streams)
            D == Described("video", "desktop")
        IN /\ Cardinality(D) = 1
           /\ \A i \in D :
                 /\ norm.res[i].stream = ds
                 /\ norm.res[i].track \in TracksOf(ds) \cup {NoTrack}
                 /\ norm.res[i].resolution = "absent"
           /\ \A i \in (1..Len(norm.res)) \ D :
                 /\ norm.res[i].stream # ds
                 /\ norm.res[i].track \notin TracksOf(ds)

\* A bundle with a desktop stream and a camera stream, both with tracks,
\* was normalized for a given resolution.
C19_Witness ==
    /\ norm.returned /\ norm.resolution = "720"
    /\ Len(DesktopOf(norm.streams).videoTracks) > 0
    /\ \E i \in Described("video", "camera") : norm.res[i].track # NoTrack

\* No stream of the bundle carries a track (no bundle carries none either).
NoTracksIn(b) ==
    \A s \in {b.audioVideo, b.audio, b.video, b.desktopStream, b.desktop} :
        TracksOf(s) = {}

\* C20: handleLocalStream returns a sequence for every bundle, the absent
\* one and those whose streams carry no tracks included, and for an input
\* without tracks the sequence is empty.
C20_NoTracksGivesEmpty ==
    norm.returned =>
        /\ \A i \in 1..Len(norm.res) :
              norm.res[i].mediaType \in {"audio", "video"}
        /\ NoTracksIn(norm.streams) => norm.res = <<>>

\* The calls of getConstraints made so far.
Built == 1..Len(gc.calls)

\* The calls that returned constraints.
BuiltOk == {i \in Built : ~gc.calls[i].threw}

\* The constraint c carries the device id in both forms.
HasBoth(c, id) ==
    /\ c.form = "object"
    /\ c.deviceId = id
    /\ \E i \in 1..Len(c.optional) : c.optional[i] = Opt("sourceId", id, 0)

\* C21: when a device id is given for a kind in um (cameraDeviceId for
\* video, micDeviceId for audio), the constraint getConstraints returns for
\* that kind has it as deviceId and as an optional sourceId, on every
\* browser.
C21_DeviceIdInBothForms ==
    \A i \in BuiltOk :
        /\ (IndexOf(gc.um, "video") # 0 /\ GivenStr(gc.given.cameraDeviceId)) =>
              HasBoth(gc.calls[i].constraints.video, gc.given.cameraDeviceId)
        /\ (IndexOf(gc.um, "audio") # 0 /\ GivenStr(gc.given.micDeviceId)) =>
              HasBoth(gc.calls[i].constraints.audio, gc.given.micDeviceId)

\* C22: the bandwidth and frame rate options only add to what the branches
\* for the kinds made: every field of constraints those branches set has
\* the same value in the constraints getConstraints returns.
C22_OverridesOnlyAdd ==
    (1 \in BuiltOk) =>
        LET k == kindConstraints(gc.um, gc.given)
            r == gc.calls[1].constraints
        IN /\ r.audio = k.audio
           /\ k.video.form # "false" =>
                /\ r.video.deviceId = k.video.deviceId
                /\ r.video.mediaSource = k.video.mediaSource
                /\ IsPrefix(k.video.optional, r.video.optional)
                /\ \A f \in DOMAIN NoMandatory :
                      k.video.mandatory[f] # NoMandatory[f] =>
                          r.video.mandatory[f] = k.video.mandatory[f]

\* C23: getConstraints returns constraints, and throws nothing, for every
\* um, every options and every browser.
C23_NeverThrows == \A i \in Built : ~gc.calls[i].threw

\* constraints.video of the calls is the camera's: 'video' is in um and no
\* branch for the screen or the desktop has replaced it.
CameraBuilt ==
    /\ IndexOf(gc.um, "video") # 0
    /\ IndexOf(gc.um, "desktop") = 0
    /\ IndexOf(gc.um, "screen") # 0 =>
          ~(isChrome \/ isTemasysPluginUsed \/ isFirefox)

\* C24: in the camera's video constraint maxWidth equals minWidth and
\* maxHeight equals minHeight, and for a known resolution label they are
\* the width and height of that label.
C24_MaxEqualsMin ==
    CameraBuilt =>
        \A i \in BuiltOk :
            LET m == gc.calls[i].constraints.video.mandatory
            IN /\ m.maxWidth = m.minWidth
               /\ m.maxHeight = m.minHeight
               /\ gc.given.resolution \in DOMAIN Resolutions =>
                     /\ m.minWidth = Resolutions[gc.given.resolution].width
                     /\ m.minHeight = Resolutions[gc.given.resolution].height

\* The camera's constraint was built for the label "360".
C24_Witness ==
    /\ CameraBuilt /\ gc.given.resolution = "360"
    /\ \E i \in BuiltOk :
          /\ gc.calls[i].constraints.video.mandatory.maxWidth = 640
          /\ gc.calls[i].constraints.video.mandatory.maxHeight = 360

\* C25: on Android the camera's constraint for a missing or unknown
\* resolution label is 320x180, as minimum and as maximum, with
\* maxFrameRate 15.
C25_AndroidFallback ==
    (CameraBuilt /\ isAndroid /\ gc.given.resolution \notin DOMAIN Resolutions) =>
        \A i \in BuiltOk :
            LET m == gc.calls[i].constraints.video.mandatory
            IN /\ m.minWidth = 320 /\ m.maxWidth = 320
               /\ m.minHeight = 180 /\ m.maxHeight = 180
               /\ m.maxFrameRate = 15

\* C26: a second call of getConstraints with the um and the options object
\* of the first gives what the first gave.
C26_Idempotent ==
    Len(gc.calls) >= 2 =>
        /\ gc.calls[2].threw = gc.calls[1].threw
        /\ gc.calls[2].constraints = gc.calls[1].constraints

\* Two calls were made with an options object that has fps and no minFps,
\* which the first call changed.
C26_Witness ==
    /\ Len(gc.calls) = 2 /\ 2 \in BuiltOk
    /\ gc.given.fps # 0 /\ gc.given.minFps = 0
    /\ gc.options # gc.given
    /\ gc.calls[2].constraints.video.mandatory.minFrameRate = gc.given.fps

\* C27: when 'screen' is in um and the browser is neither Chrome nor
\* Temasys nor Firefox, getConstraints signals that to its caller and
\* returns no constraints.
C27_ScreenUnsupportedSignalled ==
    (IndexOf(gc.um, "screen") # 0
        /\ ~(isChrome \/ isTemasysPluginUsed \/ isFirefox)) =>
        \A i \in Built : gc.calls[i].threw

\* C28: an acquisition leaves the caller's request as it was passed: the
\* array of kinds and the resolution of the options hold the values they
\* had before the call, in both strategies.
C28_RequestUnchanged ==
    \A a \in Acqs :
        acq[a].started =>
            /\ acq[a].given => acq[a].devices = acq[a].requested
            /\ acq[a].resolution = acq[a].passedResolution

\* C29: in the combined strategy, when the stream of the combined call
\* lacks an audio track though audio was asked for, or a video track though
\* video was asked for, the promise is rejected, the stream was released
\* before the rejection, and no desktop capture is started.
C29_MissingTrackRejects ==
    \A a \in Acqs :
        Combined(a) =>
            LET log == acq[a].log
            IN \A i \in CaptureIdx(a) :
                  (/\ log[i].ev = "gumSuccess"
                   /\ \/ /\ IndexOf(log[i].um, "audio") # 0
                         /\ Len(log[i].stream.audioTracks) = 0
                      \/ /\ IndexOf(log[i].um, "video") # 0
                         /\ Len(log[i].stream.videoTracks) = 0) =>
                      /\ acq[a].promise = "rejected"
                      /\ ReleasedBefore(a, i, acq[a].settledAt)
                      /\ \A j \in LogIdx(a) : j > i => log[j].ev # "desktop"

\* C30: in the combined strategy, when the desktop capture fails, the
\* error of the rejection is classified with the kind desktop, whether the
\* desktop was asked for alone or with audio and video.
C30_DesktopFailureNamesDesktop ==
    \A a \in Acqs :
        Combined(a) =>
            LET log == acq[a].log
            IN \A f \in LogIdx(a) :
                  log[f].ev = "desktopError" =>
                      \E r \in LogIdx(a) :
                          /\ r > f /\ log[r].ev = "reject"
                          /\ log[r].um = <<"desktop">>
                          /\ acq[a].settledAt = r =>
                                acq[a].error.devices = <<"desktop">>

\* What the claims on the wrapped functions speak of, read off the history.
WLogIdx == DOMAIN wrapped.log
IsCompletion(i) == wrapped.log[i].ev \in {"success", "error"}
\* The answer to the getUserMedia call that completed first.
FirstCompletion(f) ==
    /\ f \in WLogIdx /\ IsCompletion(f)
    /\ \A j \in WLogIdx : j < f => ~IsCompletion(j)
IsRequest(r) == r \in WLogIdx /\ wrapped.log[r].ev = "enumerateDevices"
IsRun(k, id) ==
    /\ k \in WLogIdx /\ wrapped.log[k].ev = "callback" /\ wrapped.log[k].id = id
\* A request made by the successCallback of a getUserMedia call.
BySuccessCallback(r) == r > 1 /\ wrapped.log[r - 1].ev = "successCallback"

\* C31: once the first call of the wrapped getUserMedia has completed,
\* every callback registered before it has been run, and a callback
\* registered after it is run at once.
C31_RunAfterFirstGetUserMedia ==
    \A f \in WLogIdx :
        FirstCompletion(f) =>
            \A r \in WLogIdx :
                IsRequest(r) =>
                    IF r < f \/ BySuccessCallback(r)
                    THEN \E k \in WLogIdx : k > r /\ IsRun(k, wrapped.log[r].id)
                    ELSE IsRun(r + 1, wrapped.log[r].id)

IsRunAt(k) == k \in WLogIdx /\ wrapped.log[k].ev = "callback"
\* Where the request of callback id is in the history.
RequestOf(id) == CHOOSE r \in WLogIdx : IsRequest(r) /\ wrapped.log[r].id = id

====
